---- MODULE Spec2Model ----
(***************************************************************************)
(* A model of the two scripts of the repository.                           *)
(*                                                                         *)
(*   zip_code_centroids.py : main(), one action per statement, over a      *)
(*     gazetteer file whose fields are character sequences.  Spec is its   *)
(*     specification.                                                      *)
(*   infiltration.py : compute_infiltration(), one action per statement    *)
(*     and loop iteration, over exact rationals extended with the IEEE     *)
(*     values inf, -inf and nan.  SpecInf is its specification.            *)
(*                                                                         *)
(* Text is a sequence of one-character strings, so that parsing, the       *)
(* missing-value filter of read_csv and the string conversion are          *)
(* computed rather than assumed.                                           *)
(***************************************************************************)
EXTENDS Integers, Sequences, FiniteSets, TLC

(* ------------------------------------------------------------------ *)
(* Bounds of the model.                                                *)
(* ------------------------------------------------------------------ *)
\* Largest number of data rows of an input file.
MaxRows == 2
\* Largest n_points compute_infiltration is called with.
MaxPoints == 3

VARIABLES
  pc,        \* the statement main() / compute_infiltration() is at
  file,      \* the gazetteer file on disk (input, never written)
  df,        \* the pandas DataFrame `df`
  geometry,  \* the list `geometry` of line 46
  gdf,       \* the GeoDataFrame `gdf`
  shp,       \* the shapefile OUTPUT_SHP on disk
  gdf2,      \* the GeoDataFrame read back at line 61
  printed,   \* the count printed at line 55
  err,       \* the exception that ended the run, or "none"
  args,      \* the arguments of compute_infiltration (infiltration.py)
  loc        \* the local variables of compute_infiltration

vars == <<pc, file, df, geometry, gdf, shp, gdf2, printed, err, args, loc>>

(* ------------------------------------------------------------------ *)
(* Cells of a frame: a string, a float, or the missing value NaN.      *)
(* A finite float is n / 10^d with n not divisible by 10 unless d = 0. *)
(* ------------------------------------------------------------------ *)
StrCell(s) == [k |-> "str", s |-> s, n |-> 0, d |-> 0]
NaN == [k |-> "nan", s |-> <<>>, n |-> 0, d |-> 0]
InfCell(sign) == [k |-> "inf", s |-> <<>>, n |-> sign, d |-> 0]

RECURSIVE NumCell(_, _)
NumCell(n, d) ==
  IF d > 0 /\ n % 10 = 0 THEN NumCell(n \div 10, d - 1)
  ELSE [k |-> "num", s |-> <<>>, n |-> n, d |-> d]

None == [k |-> "none"]

(* ------------------------------------------------------------------ *)
(* pandas.read_csv(..., dtype=str): with the default na_filter a field *)
(* that spells a missing value is read as NaN, even with dtype=str.    *)
(* ------------------------------------------------------------------ *)
NaValues ==
  { <<>>,
    <<"#","N","/","A">>, <<"#","N","/","A"," ","N","/","A">>, <<"#","N","A">>,
    <<"-","1",".","#","I","N","D">>, <<"-","1",".","#","Q","N","A","N">>,
    <<"-","N","a","N">>, <<"-","n","a","n">>,
    <<"1",".","#","I","N","D">>, <<"1",".","#","Q","N","A","N">>,
    <<"<","N","A",">">>, <<"N","/","A">>, <<"N","A">>, <<"N","U","L","L">>,
    <<"N","a","N">>, <<"N","o","n","e">>, <<"n","/","a">>, <<"n","a","n">>,
    <<"n","u","l","l">> }

ReadField(s) == IF s \in NaValues THEN NaN ELSE StrCell(s)

\* Series.astype(str) on an object column: str(x) of every element, and
\* str(float('nan')) is 'nan'.
AsTypeStr(c) ==
  IF c.k = "nan" THEN StrCell(<<"n","a","n">>) ELSE StrCell(c.s)

(* ------------------------------------------------------------------ *)
(* pandas.to_numeric(..., errors="coerce") on an object column.        *)
(* ------------------------------------------------------------------ *)
DigitVal ==
  ("0" :> 0) @@ ("1" :> 1) @@ ("2" :> 2) @@ ("3" :> 3) @@ ("4" :> 4) @@
  ("5" :> 5) @@ ("6" :> 6) @@ ("7" :> 7) @@ ("8" :> 8) @@ ("9" :> 9)

IsDigit(c) == c \in DOMAIN DigitVal

LowerMap ==
  ("I" :> "i") @@ ("N" :> "n") @@ ("F" :> "f") @@ ("T" :> "t") @@
  ("Y" :> "y") @@ ("A" :> "a")

Lower(s) ==
  [i \in 1..Len(s) |-> IF s[i] \in DOMAIN LowerMap THEN LowerMap[s[i]] ELSE s[i]]

\* The index after the run of digits of s that starts at i.
RECURSIVE ScanDigits(_, _)
ScanDigits(s, i) ==
  IF i <= Len(s) /\ IsDigit(s[i]) THEN ScanDigits(s, i + 1) ELSE i

\* The value of the digits s[i..j-1] appended to acc.
RECURSIVE DigitsValue(_, _, _, _)
DigitsValue(s, i, j, acc) ==
  IF i >= j THEN acc ELSE DigitsValue(s, i + 1, j, 10 * acc + DigitVal[s[i]])

InfWords == { <<"i","n","f">>, <<"i","n","f","i","n","i","t","y">> }

\* The float a string parses to, or NaN when it does not parse
\* (errors="coerce"): [sign] digits [. digits], or a spelling of
\* infinity or nan in any case.
Floatify(s) ==
  LET signed == Len(s) > 0 /\ s[1] \in {"+", "-"}
      sign   == IF signed /\ s[1] = "-" THEN -1 ELSE 1
      b      == IF signed THEN 2 ELSE 1
      e1     == ScanDigits(s, b)
      hasDot == e1 <= Len(s) /\ s[e1] = "."
      f0     == e1 + 1
      e2     == IF hasDot THEN ScanDigits(s, f0) ELSE e1
      nfrac  == IF hasDot THEN e2 - f0 ELSE 0
      ndig   == (e1 - b) + nfrac
      ipart  == DigitsValue(s, b, e1, 0)
      mant   == IF hasDot THEN DigitsValue(s, f0, e2, ipart) ELSE ipart
      word   == Lower(SubSeq(s, b, Len(s)))
  IN  IF ndig > 0 /\ e2 = Len(s) + 1 THEN NumCell(sign * mant, nfrac)
      ELSE IF word \in InfWords THEN InfCell(sign)
      ELSE NaN

ToNumeric(c) == IF c.k = "str" THEN Floatify(c.s) ELSE c

\* pandas.isna: NaN is missing, an infinity is not.
IsNa(c) == c.k = "nan"

(* ------------------------------------------------------------------ *)
(* Frames: column names, index labels, and one row per label, each row *)
(* a function from the column names to values.                         *)
(* ------------------------------------------------------------------ *)
Frame(cols, idx, data) == [cols |-> cols, idx |-> idx, data |-> data]

Range(s) == {s[i] : i \in 1..Len(s)}

\* df[col]: the values of a column, in row order.
Column(d, col) == [i \in 1..Len(d.data) |-> d.data[i][col]]

\* df[col] = values, appending col when it is new.
SetColumn(d, col, values) ==
  Frame(IF col \in Range(d.cols) THEN d.cols ELSE Append(d.cols, col),
        d.idx,
        [i \in 1..Len(d.data) |->
           [c \in DOMAIN d.data[i] \cup {col} |->
              IF c = col THEN values[i] ELSE d.data[i][c]]])

\* Series.astype(str) and pd.to_numeric(series, errors="coerce"),
\* element by element.
SeriesAsTypeStr(s) == [i \in 1..Len(s) |-> AsTypeStr(s[i])]
SeriesToNumeric(s) == [i \in 1..Len(s) |-> ToNumeric(s[i])]

\* Mutant of KeptPositions: a row is dropped only when every column of
\* subset is missing (how="all").
RECURSIVE KeptPositionsAll(_, _, _)
KeptPositionsAll(data, subset, i) ==
  IF i > Len(data) THEN <<>>
  ELSE IF \E c \in subset : ~IsNa(data[i][c])
       THEN <<i>> \o KeptPositionsAll(data, subset, i + 1)
       ELSE KeptPositionsAll(data, subset, i + 1)

\* The positions of the rows of data, from i on and in order, that have
\* no missing value in the columns of subset.
RECURSIVE KeptPositions(_, _, _)
KeptPositions(data, subset, i) ==
  IF i > Len(data) THEN <<>>
  ELSE IF \A c \in subset : ~IsNa(data[i][c])
       THEN <<i>> \o KeptPositions(data, subset, i + 1)
       ELSE KeptPositions(data, subset, i + 1)

\* Mutant of DropNa: the kept labels, but the rows taken from the top of
\* the frame instead of from the kept positions.
DropNaMisaligned(d, subset) ==
  LET kept == KeptPositions(d.data, subset, 1)
  IN  Frame(d.cols,
            [k \in 1..Len(kept) |-> d.idx[kept[k]]],
            [k \in 1..Len(kept) |-> d.data[k]])

\* df.dropna(subset=cols): the rows with no missing value in cols, with
\* the index labels they had.
DropNa(d, subset) ==
  LET kept == KeptPositions(d.data, subset, 1)
  IN  Frame(d.cols,
            [k \in 1..Len(kept) |-> d.idx[kept[k]]],
            [k \in 1..Len(kept) |-> d.data[kept[k]]])

\* Mutant of Point: the pair taken as (latitude, longitude).
PointLatLong(xy) == [type |-> "Point", x |-> xy[2], y |-> xy[1]]

\* shapely Point(xy): the first component of the pair is x.
Point(xy) == [type |-> "Point", x |-> xy[1], y |-> xy[2]]

\* zip(a, b): pairs by position, as long as the shorter.
Zip(a, b) ==
  [i \in 1..(IF Len(a) < Len(b) THEN Len(a) ELSE Len(b)) |-> <<a[i], b[i]>>]


(* ------------------------------------------------------------------ *)
(* The shapefile: one geometry type for the layer, the attribute       *)
(* fields, and one record per feature.  A DBF character field is       *)
(* padded with spaces when written and stripped of them when read.     *)
(* ------------------------------------------------------------------ *)
RECURSIVE RStrip(_)
RStrip(s) ==
  IF Len(s) > 0 /\ s[Len(s)] = " " THEN RStrip(SubSeq(s, 1, Len(s) - 1)) ELSE s

\* GeoDataFrame.to_file: the layer's geometry type is the one type of
\* the geometries ("Unknown" for none or several), the fields are the
\* columns other than geometry, and the features follow the rows in
\* order; the index is not written.
EncodeShp(g) ==
  LET types == {g.data[i]["geometry"].type : i \in 1..Len(g.data)}
      attrs == SelectSeq(g.cols, LAMBDA c : c # "geometry")
  IN  [geomType |-> IF Cardinality(types) = 1 THEN CHOOSE ty \in types : TRUE
                    ELSE "Unknown",
       fields   |-> attrs,
       crs      |-> g.crs,
       recs     |-> [i \in 1..Len(g.data) |->
                       [attr |-> [c \in Range(attrs) |-> g.data[i][c]],
                        x |-> g.data[i]["geometry"].x,
                        y |-> g.data[i]["geometry"].y]]]

\* Mutant of DecodeShp: the layer read back as multi-points.
DecodeShpMultiPoint(f) ==
  [cols |-> Append(f.fields, "geometry"),
   idx  |-> [i \in 1..Len(f.recs) |-> i - 1],
   crs  |-> f.crs,
   data |-> [i \in 1..Len(f.recs) |->
               [c \in Range(f.fields) \cup {"geometry"} |->
                  IF c = "geometry"
                  THEN [type |-> "MultiPoint", x |-> f.recs[i].x, y |-> f.recs[i].y]
                  ELSE IF f.recs[i].attr[c].k = "str"
                       THEN StrCell(RStrip(f.recs[i].attr[c].s))
                       ELSE f.recs[i].attr[c]]]]

\* geopandas.read_file: a fresh index 0..n-1, the fields and then the
\* geometry column, every shape decoded as the layer's geometry type.
DecodeShp(f) ==
  [cols |-> Append(f.fields, "geometry"),
   idx  |-> [i \in 1..Len(f.recs) |-> i - 1],
   crs  |-> f.crs,
   data |-> [i \in 1..Len(f.recs) |->
               [c \in Range(f.fields) \cup {"geometry"} |->
                  IF c = "geometry"
                  THEN [type |-> f.geomType, x |-> f.recs[i].x, y |-> f.recs[i].y]
                  ELSE IF f.recs[i].attr[c].k = "str"
                       THEN StrCell(RStrip(f.recs[i].attr[c].s))
                       ELSE f.recs[i].attr[c]]]]

(* ------------------------------------------------------------------ *)
(* The input files the model draws from.                               *)
(* ------------------------------------------------------------------ *)
GeoidTexts == { <<"0","0","5","0","1">>, <<"N","A">> }
LatTexts ==
  { <<"4","0",".","0">>, <<"0","7">>, <<>>, <<"i","n","f">>, <<"4","o">> }
LongTexts == { <<"-","7","5",".","0">>, <<"n","a","n">>, <<"x">> }

FullHeaders ==
  { <<"GEOID", "INTPTLAT", "INTPTLONG">>,
    <<"GEOID", "ALAND", "INTPTLAT", "INTPTLONG">> }
BrokenHeaders ==
  { <<"ZCTA", "INTPTLAT", "INTPTLONG">>,
    <<"GEOID", "INTPTLONG">>,
    <<"GEOID", "INTPTLAT">> }

FileRow(h, id, lat, lon) ==
  [c \in Range(h) |->
     CASE c = "INTPTLAT"  -> lat
       [] c = "INTPTLONG" -> lon
       [] c = "ALAND"     -> <<"7">>
       [] OTHER           -> id]

FileRows(h, ids, lats, lons) ==
  {FileRow(h, id, lat, lon) : id \in ids, lat \in lats, lon \in lons}

\* The gazetteer file is missing or cannot be parsed, or is a table
\* with all the columns main() reads and up to MaxRows rows, or a
\* table that lacks one of them.
IsInputFile(fl) ==
  \/ \E k \in {"missing", "garbled"} :
       fl = [kind |-> k, header |-> <<>>, rows |-> <<>>]
  \/ \E h \in FullHeaders : \E n \in 0..MaxRows :
       \E r \in [1..n -> FileRows(h, GeoidTexts, LatTexts, LongTexts)] :
         fl = [kind |-> "ok", header |-> h, rows |-> r]
  \/ \E h \in BrokenHeaders : \E n \in 0..1 :
       \E r \in [1..n -> FileRows(h, {<<"0","0","5","0","1">>},
                                  {<<"4","0",".","0">>},
                                  {<<"-","7","5",".","0">>})] :
         fl = [kind |-> "ok", header |-> h, rows |-> r]

NoFrame == [cols |-> <<>>, idx |-> <<>>, data |-> <<>>]
NoFile == [geomType |-> "absent", fields |-> <<>>, crs |-> "", recs |-> <<>>]
NoArgs == [np |-> FALSE]

InitMain ==
  /\ pc = "L32"
  /\ IsInputFile(file)
  /\ df = NoFrame
  /\ geometry = <<>>
  /\ gdf = NoFrame
  /\ shp = NoFile
  /\ gdf2 = NoFrame
  /\ printed = -1
  /\ err = "none"
  /\ args = NoArgs
  /\ loc = None

Raise(e) ==
  /\ pc' = "aborted"
  /\ err' = e
  /\ UNCHANGED <<file, df, geometry, gdf, shp, gdf2, printed, args, loc>>

\* line 32: df = pd.read_csv(GAZETTEER_FILE, delimiter="|", dtype=str)
ReadCsv ==
  /\ pc = "L32"
  /\ IF file.kind = "missing" THEN Raise("FileNotFoundError")
     ELSE IF file.kind = "garbled" THEN Raise("ParserError")
     ELSE /\ df' = Frame(file.header,
                         [i \in 1..Len(file.rows) |-> i - 1],
                         [i \in 1..Len(file.rows) |->
                            [c \in Range(file.header) |-> ReadField(file.rows[i][c])]])
          /\ pc' = "L35"
          /\ UNCHANGED <<file, geometry, gdf, shp, gdf2, printed, err, args, loc>>

\* line 35: df["ZIP"] = df["GEOID"].astype(str)
AssignZip ==
  /\ pc = "L35"
  /\ IF "GEOID" \notin Range(df.cols) THEN Raise("KeyError")
     ELSE /\ df' = SetColumn(df, "ZIP", SeriesAsTypeStr(Column(df, "GEOID")))
          /\ pc' = "L39"
          /\ UNCHANGED <<file, geometry, gdf, shp, gdf2, printed, err, args, loc>>

\* line 39: df["INTPTLAT"] = pd.to_numeric(df["INTPTLAT"], errors="coerce")
CoerceLat ==
  /\ pc = "L39"
  /\ IF "INTPTLAT" \notin Range(df.cols) THEN Raise("KeyError")
     ELSE /\ df' = SetColumn(df, "INTPTLAT", SeriesToNumeric(Column(df, "INTPTLAT")))
          /\ pc' = "L40"
          /\ UNCHANGED <<file, geometry, gdf, shp, gdf2, printed, err, args, loc>>

\* line 40: df["INTPTLONG"] = pd.to_numeric(df["INTPTLONG"], errors="coerce")
CoerceLong ==
  /\ pc = "L40"
  /\ IF "INTPTLONG" \notin Range(df.cols) THEN Raise("KeyError")
     ELSE /\ df' = SetColumn(df, "INTPTLONG", SeriesToNumeric(Column(df, "INTPTLONG")))
          /\ pc' = "L43"
          /\ UNCHANGED <<file, geometry, gdf, shp, gdf2, printed, err, args, loc>>

\* line 43: df = df.dropna(subset=["INTPTLAT", "INTPTLONG"])
DropInvalid ==
  /\ pc = "L43"
  /\ df' = DropNa(df, {"INTPTLAT", "INTPTLONG"})
  /\ pc' = "L46"
  /\ UNCHANGED <<file, geometry, gdf, shp, gdf2, printed, err, args, loc>>

\* line 46: geometry = [Point(xy) for xy in zip(df["INTPTLONG"], df["INTPTLAT"])]
Points(d) ==
  LET xys == Zip(Column(d, "INTPTLONG"), Column(d, "INTPTLAT"))
  IN  [i \in 1..Len(xys) |-> Point(xys[i])]

BuildGeometry ==
  /\ pc = "L46"
  /\ geometry' = Points(df)
  /\ pc' = "L49"
  /\ UNCHANGED <<file, df, gdf, shp, gdf2, printed, err, args, loc>>

\* line 49: gdf = gpd.GeoDataFrame(df, geometry=geometry, crs="EPSG:4326")
\* A list is set as the geometry column by position, whatever the index.
GeoDataFrame(d, geom, crs) ==
  [cols |-> IF "geometry" \in Range(d.cols) THEN d.cols
            ELSE Append(d.cols, "geometry"),
   idx  |-> d.idx,
   crs  |-> crs,
   data |-> [i \in 1..Len(d.data) |->
               [c \in DOMAIN d.data[i] \cup {"geometry"} |->
                  IF c = "geometry" THEN geom[i] ELSE d.data[i][c]]]]

MakeGdf ==
  /\ pc = "L49"
  /\ IF Len(geometry) # Len(df.data) THEN Raise("ValueError")
     ELSE /\ gdf' = GeoDataFrame(df, geometry, "EPSG:4326")
          /\ pc' = "L52"
          /\ UNCHANGED <<file, df, geometry, shp, gdf2, printed, err, args, loc>>

\* Mutant of Select: the frame is left with all its columns.
SelectAll(g, cols) == g

\* line 52: gdf = gdf[["ZIP", "geometry"]]
Select(g, cols) ==
  [cols |-> cols,
   idx  |-> g.idx,
   crs  |-> g.crs,
   data |-> [i \in 1..Len(g.data) |-> [c \in Range(cols) |-> g.data[i][c]]]]

Project ==
  /\ pc = "L52"
  /\ gdf' = Select(gdf, <<"ZIP", "geometry">>)
  /\ pc' = "L55"
  /\ UNCHANGED <<file, df, geometry, shp, gdf2, printed, err, args, loc>>

\* lines 55-57: print(f"Writing {len(gdf)} ..."); gdf.to_file(OUTPUT_SHP)
\* The write succeeds, replacing what was there, or raises (the path is
\* unwritable, or the driver rejects the collection).
ToFileOk ==
  /\ pc = "L55"
  /\ printed' = Len(gdf.data)
  /\ shp' = EncodeShp(gdf)
  /\ pc' = "L61"
  /\ UNCHANGED <<file, df, geometry, gdf, gdf2, err, args, loc>>

\* Mutant of ToFileFails: the write error is swallowed and main() goes on.
ToFileFailsSwallowed ==
  /\ pc = "L55"
  /\ printed' = Len(gdf.data)
  /\ pc' = "L61"
  /\ err' = "WriteError"
  /\ UNCHANGED <<file, df, geometry, gdf, shp, gdf2, args, loc>>

ToFileFails ==
  /\ pc = "L55"
  /\ printed' = Len(gdf.data)
  /\ pc' = "aborted"
  /\ err' = "WriteError"
  /\ UNCHANGED <<file, df, geometry, gdf, shp, gdf2, args, loc>>

\* line 61: gdf2 = gpd.read_file(OUTPUT_SHP)
ReadFile ==
  /\ pc = "L61"
  /\ gdf2' = DecodeShp(shp)
  /\ pc' = "L62"
  /\ UNCHANGED <<file, df, geometry, gdf, shp, printed, err, args, loc>>

\* lines 62-63: gdf2.plot(...); print("Display complete. ...")
Plot ==
  /\ pc = "L62"
  /\ pc' = "done"
  /\ UNCHANGED <<file, df, geometry, gdf, shp, gdf2, printed, err, args, loc>>

Next ==
  \/ ReadCsv
  \/ AssignZip
  \/ CoerceLat
  \/ CoerceLong
  \/ DropInvalid
  \/ BuildGeometry
  \/ MakeGdf
  \/ Project
  \/ ToFileOk
  \/ ToFileFails
  \/ ReadFile
  \/ Plot

Spec == InitMain /\ [][Next]_vars

(* ------------------------------------------------------------------ *)
(* infiltration.py.  A float is an exact rational n/d (d > 0, lowest   *)
(* terms) or one of the IEEE values inf, -inf, nan; rounding is not    *)
(* modelled, and a zero is the positive zero.                          *)
(* ------------------------------------------------------------------ *)
Abs(x) == IF x < 0 THEN -x ELSE x
Sgn(x) == IF x < 0 THEN -1 ELSE IF x > 0 THEN 1 ELSE 0

RECURSIVE GCD(_, _)
GCD(a, b) == IF b = 0 THEN a ELSE GCD(b, a % b)

Fin(n, d) ==
  LET g == GCD(Abs(n), Abs(d))
  IN  [k |-> "fin", n |-> Sgn(d) * (n \div g), d |-> Abs(d) \div g]
Inf(sign) == [k |-> "inf", n |-> sign, d |-> 1]
Nan == [k |-> "nan", n |-> 0, d |-> 1]
Unset == [k |-> "unset", n |-> 0, d |-> 1]
ZeroDivisionError == [k |-> "raise", n |-> 0, d |-> 1]

IsFinite(a) == a.k = "fin"
IsZero(a) == a.k = "fin" /\ a.n = 0

Add(a, b) ==
  IF a.k = "nan" \/ b.k = "nan" THEN Nan
  ELSE IF a.k = "inf" /\ b.k = "inf" THEN (IF a.n = b.n THEN a ELSE Nan)
  ELSE IF a.k = "inf" THEN a
  ELSE IF b.k = "inf" THEN b
  ELSE Fin(a.n * b.d + b.n * a.d, a.d * b.d)

Neg(a) == IF a.k = "nan" THEN Nan ELSE [a EXCEPT !.n = -a.n]

Sub(a, b) == Add(a, Neg(b))

Mul(a, b) ==
  IF a.k = "nan" \/ b.k = "nan" THEN Nan
  ELSE IF a.k = "inf" \/ b.k = "inf"
       THEN (IF a.n = 0 \/ b.n = 0 THEN Nan ELSE Inf(Sgn(a.n) * Sgn(b.n)))
  ELSE Fin(a.n * b.n, a.d * b.d)

\* IEEE division, as NumPy scalars divide: a zero divisor gives an
\* infinity or nan (with a RuntimeWarning), never an exception.
DivNp(a, b) ==
  IF a.k = "nan" \/ b.k = "nan" THEN Nan
  ELSE IF a.k = "inf" THEN (IF b.k = "inf" THEN Nan
                            ELSE Inf(a.n * (IF b.n < 0 THEN -1 ELSE 1)))
  ELSE IF b.k = "inf" THEN Fin(0, 1)
  ELSE IF b.n = 0 THEN (IF a.n = 0 THEN Nan ELSE Inf(Sgn(a.n)))
  ELSE Fin(a.n * b.d, a.d * b.n)

\* Mutant of Div: every division is NumPy's and none raises.
DivNeverRaises(a, b, np) == DivNp(a, b)

\* a / b: a Python float divided by a Python float raises
\* ZeroDivisionError on a zero divisor; if either is a NumPy float the
\* division is NumPy's.
Div(a, b, np) ==
  IF ~np /\ IsZero(b) THEN ZeroDivisionError ELSE DivNp(a, b)

\* a <= b; False whenever either is nan.
Le(a, b) ==
  IF a.k = "nan" \/ b.k = "nan" THEN FALSE
  ELSE IF a.k = "inf" THEN (a.n < 0 \/ (b.k = "inf" /\ b.n > 0))
  ELSE IF b.k = "inf" THEN b.n > 0
  ELSE a.n * b.d <= b.n * a.d

One == Fin(1, 1)

\* numpy.linspace(0, F_max, n_points): n_points samples, evenly spaced,
\* the first 0 and (for more than one) the last F_max.
Linspace(stop, n) ==
  [i \in 1..n |->
     IF n = 1 THEN Fin(0, 1) ELSE Mul(Fin(i - 1, 1), DivNp(stop, Fin(n - 1, 1)))]

\* line 59: Ks * (1 - (delta_theta * psi) / Fi), Fi a NumPy float.
GreenAmpt(Ks, delta_theta, psi, Fi) ==
  Mul(Ks, Sub(One, DivNp(Mul(delta_theta, psi), Fi)))

\* line 56: Fi <= F_p
PrePonding(Fi, F_p) == Le(Fi, F_p)

\* The arguments the model calls compute_infiltration with: the
\* homework's (lines 90-94) and small ones around the singular cases.
\* np: the arguments are NumPy float64 values rather than Python floats.
Homework ==
  [Ks |-> Fin(53, 100), theta_s |-> Fin(518, 1000), theta_i |-> Fin(215, 1000),
   psi |-> Fin(-937, 100), rain_intensity |-> Fin(65, 10)]

SmallArgs ==
  [Ks : {Fin(0, 1), Fin(1, 2), Fin(1, 1)},
   theta_s : {Fin(1, 2)},
   theta_i : {Fin(1, 4), Fin(1, 2)},
   psi : {Fin(-1, 1)},
   rain_intensity : {Fin(1, 2), Fin(2, 1)}]

Call(a, np, n) ==
  [np |-> np, Ks |-> a.Ks, theta_s |-> a.theta_s, theta_i |-> a.theta_i,
   psi |-> a.psi, rain_intensity |-> a.rain_intensity,
   F_max |-> One, n_points |-> n]

NoLocals ==
  [delta_theta |-> Unset, F_p |-> Unset, t_p |-> Unset,
   F |-> <<>>, f |-> <<>>, idx |-> 0]

InitInf ==
  /\ pc = "L47"
  /\ args \in {Call(a, np, n) : a \in SmallArgs \cup {Homework},
                               np \in BOOLEAN, n \in 1..MaxPoints}
  /\ loc = NoLocals
  /\ file = [kind |-> "missing", header |-> <<>>, rows |-> <<>>]
  /\ df = NoFrame
  /\ geometry = <<>>
  /\ gdf = NoFrame
  /\ shp = NoFile
  /\ gdf2 = NoFrame
  /\ printed = -1
  /\ err = "none"

mainVars == <<file, df, geometry, gdf, shp, gdf2, printed>>

\* line 47: delta_theta = theta_s - theta_i
DeltaTheta ==
  /\ pc = "L47"
  /\ loc' = [loc EXCEPT !.delta_theta = Sub(args.theta_s, args.theta_i)]
  /\ pc' = "L49"
  /\ UNCHANGED <<mainVars, err, args>>

\* line 49: F_p = (delta_theta * psi) / (1 - rain_intensity / Ks)
PondingVolume ==
  /\ pc = "L49"
  /\ LET q   == Div(args.rain_intensity, args.Ks, args.np)
         den == Sub(One, q)
         F_p == Div(Mul(loc.delta_theta, args.psi), den, args.np)
     IN  IF q = ZeroDivisionError \/ F_p = ZeroDivisionError
         THEN /\ pc' = "raised"
              /\ err' = "ZeroDivisionError"
              /\ UNCHANGED <<mainVars, args, loc>>
         ELSE /\ loc' = [loc EXCEPT !.F_p = F_p]
              /\ pc' = "L50"
              /\ UNCHANGED <<mainVars, err, args>>

\* line 50: t_p = F_p / Ks
PondingTime ==
  /\ pc = "L50"
  /\ LET t_p == Div(loc.F_p, args.Ks, args.np)
     IN  IF t_p = ZeroDivisionError
         THEN /\ pc' = "raised"
              /\ err' = "ZeroDivisionError"
              /\ UNCHANGED <<mainVars, args, loc>>
         ELSE /\ loc' = [loc EXCEPT !.t_p = t_p]
              /\ pc' = "L53"
              /\ UNCHANGED <<mainVars, err, args>>

\* lines 53-54: F = np.linspace(0, F_max, n_points); f = np.zeros_like(F)
Sample ==
  /\ pc = "L53"
  /\ loc' = [loc EXCEPT !.F = Linspace(args.F_max, args.n_points),
                        !.f = [i \in 1..args.n_points |-> Fin(0, 1)],
                        !.idx = 1]
  /\ pc' = "L55"
  /\ UNCHANGED <<mainVars, err, args>>

\* lines 55-57: the iteration at idx whose Fi <= F_p
RainBranch ==
  /\ pc = "L55"
  /\ loc.idx <= Len(loc.F)
  /\ PrePonding(loc.F[loc.idx], loc.F_p)
  /\ loc' = [loc EXCEPT !.f[loc.idx] = args.rain_intensity, !.idx = loc.idx + 1]
  /\ UNCHANGED <<pc, mainVars, err, args>>

\* lines 55-59: the iteration at idx whose Fi <= F_p is False
GreenAmptBranch ==
  /\ pc = "L55"
  /\ loc.idx <= Len(loc.F)
  /\ ~PrePonding(loc.F[loc.idx], loc.F_p)
  /\ loc' = [loc EXCEPT
               !.f[loc.idx] = GreenAmpt(args.Ks, loc.delta_theta, args.psi,
                                        loc.F[loc.idx]),
               !.idx = loc.idx + 1]
  /\ UNCHANGED <<pc, mainVars, err, args>>

\* line 60: return F, f, F_p, t_p
Return ==
  /\ pc = "L55"
  /\ loc.idx > Len(loc.F)
  /\ pc' = "returned"
  /\ UNCHANGED <<mainVars, err, args, loc>>

NextInf ==
  \/ DeltaTheta
  \/ PondingVolume
  \/ PondingTime
  \/ Sample
  \/ RainBranch
  \/ GreenAmptBranch
  \/ Return

SpecInf == InitInf /\ [][NextInf]_vars

(* ================================================================== *)
(* Properties of main() (zip_code_centroids.py), checked under Spec.   *)
(* ================================================================== *)

\* The statements after the coordinate filter of line 43 has run.
Filtered ==
  pc \in {"L46", "L49", "L52", "L55", "L61", "L62", "done"} \/ err = "WriteError"

\* The statements after the projection of line 52 has run: gdf is the
\* dataset handed to to_file.
Projected == pc \in {"L55", "L61", "L62", "done"} \/ err = "WriteError"

\* The dataset has been written to OUTPUT_SHP.
Written == pc \in {"L61", "L62", "done"}

\* The count has been printed (line 55).
Reported == pc \in {"L61", "L62", "done"} \/ err = "WriteError"

\* The input row (1-based) a frame row with index label l came from.
RowOf(l) == l + 1

\* C1: every surviving row's ZIP in the output dataset, and in the
\* written file, is its input GEOID text, character for character.
C1_IdentifierPreserved ==
  /\ Projected =>
       \A k \in 1..Len(gdf.data) :
         gdf.data[k]["ZIP"] = StrCell(file.rows[RowOf(gdf.idx[k])]["GEOID"])
  /\ Written =>
       \A k \in 1..Len(shp.recs) :
         shp.recs[k].attr["ZIP"] = StrCell(file.rows[RowOf(gdf.idx[k])]["GEOID"])

\* The coordinate texts of the input alphabet that spell a number: the
\* decimal literals and the spelling of infinity, which is a float.  The
\* empty text, "nan", "4o" and "x" spell none.
NumericTexts ==
  { <<"4","0",".","0">>, <<"0","7">>, <<"i","n","f">>, <<"-","7","5",".","0">> }

Malformed(row) ==
  row["INTPTLAT"] \notin NumericTexts \/ row["INTPTLONG"] \notin NumericTexts

WellFormedRows == {i \in 1..Len(file.rows) : ~Malformed(file.rows[i])}

C3_LongitudeFirst ==
  /\ pc \in {"L49", "L52"} =>
       \A k \in 1..Len(geometry) :
         /\ geometry[k].x = df.data[k]["INTPTLONG"]
         /\ geometry[k].y = df.data[k]["INTPTLAT"]
  /\ Projected =>
       \A k \in 1..Len(gdf.data) :
         LET row == file.rows[RowOf(gdf.idx[k])]
         IN  (row["INTPTLAT"] = <<"4","0",".","0">>
                /\ row["INTPTLONG"] = <<"-","7","5",".","0">>)
             => gdf.data[k]["geometry"] =
                  [type |-> "Point", x |-> NumCell(-75, 0), y |-> NumCell(40, 0)]

C3_Witness ==
  /\ pc = "done"
  /\ \E k \in 1..Len(gdf.data) :
       /\ file.rows[RowOf(gdf.idx[k])]["INTPTLAT"] = <<"4","0",".","0">>
       /\ gdf.data[k]["geometry"].x = NumCell(-75, 0)
       /\ gdf.data[k]["geometry"].y = NumCell(40, 0)

\* C4: the dataset handed to to_file has exactly the two fields ZIP and
\* geometry, whatever columns the input has, and the written file has
\* the one attribute field ZIP beside its shapes.
C4_TwoFields ==
  /\ Projected =>
       /\ gdf.cols = <<"ZIP", "geometry">>
       /\ \A k \in 1..Len(gdf.data) : DOMAIN gdf.data[k] = {"ZIP", "geometry"}
  /\ Written =>
       /\ shp.fields = <<"ZIP">>
       /\ \A k \in 1..Len(shp.recs) : DOMAIN shp.recs[k].attr = {"ZIP"}

C4_Witness ==
  /\ pc = "done"
  /\ "ALAND" \in Range(file.header)
  /\ "ALAND" \in Range(df.cols)
  /\ Len(shp.recs) > 0

C7_CoordinatesFinite ==
  /\ Filtered =>
       \A k \in 1..Len(df.data) :
         /\ df.data[k]["INTPTLAT"].k = "num"
         /\ df.data[k]["INTPTLONG"].k = "num"
  /\ \A k \in 1..Len(geometry) :
       geometry[k].x.k = "num" /\ geometry[k].y.k = "num"

\* The order of the statements of main(); an abort is last.
Rank ==
  ("L32" :> 1) @@ ("L35" :> 2) @@ ("L39" :> 3) @@ ("L40" :> 4) @@
  ("L43" :> 5) @@ ("L46" :> 6) @@ ("L49" :> 7) @@ ("L52" :> 8) @@
  ("L55" :> 9) @@ ("L61" :> 10) @@ ("L62" :> 11) @@ ("done" :> 12) @@
  ("aborted" :> 13)

HasColumns == {"GEOID", "INTPTLAT", "INTPTLONG"} \subseteq Range(file.header)

C8_State ==
  /\ (pc = "aborted") = (err # "none")
  /\ err \in {"FileNotFoundError", "ParserError"} =>
       shp = NoFile /\ gdf2 = NoFrame /\ printed = -1 /\ df = NoFrame
  /\ err = "WriteError" => gdf2 = NoFrame
  /\ (file.kind = "ok" /\ HasColumns) => err \in {"none", "WriteError"}
  /\ file.kind # "ok" => pc \in {"L32", "aborted"}

C8_Step ==
  /\ pc # "aborted"
  /\ Rank[pc'] > Rank[pc]

\* C8: a fatal error ends the run where it occurs and no later statement
\* runs: a failed load writes nothing, a failed write is never followed
\* by the reload, no statement runs twice, and a malformed row never
\* aborts the run.
C8_FatalAborts == [](C8_State) /\ [][C8_Step]_vars

C8_Witness ==
  /\ pc = "aborted"
  /\ err = "WriteError"
  /\ \E i \in 1..Len(file.rows) : Malformed(file.rows[i])

\* C10: the output lists the surviving rows in input order, and each pair
\* joins the identifier and the point that come from one input row.
C10_OrderAndPairing ==
  Projected =>
    /\ \A k \in 1..(Len(gdf.idx) - 1) : gdf.idx[k] < gdf.idx[k + 1]
    /\ \A k \in 1..Len(gdf.data) :
         LET row == file.rows[RowOf(gdf.idx[k])]
         IN  /\ gdf.data[k]["ZIP"] = AsTypeStr(ReadField(row["GEOID"]))
             /\ gdf.data[k]["geometry"] =
                  Point(<<Floatify(row["INTPTLONG"]), Floatify(row["INTPTLAT"])>>)
    /\ Written =>
         \A k \in 1..Len(shp.recs) :
           /\ shp.recs[k].attr["ZIP"] = gdf.data[k]["ZIP"]
           /\ shp.recs[k].x = gdf.data[k]["geometry"].x
           /\ shp.recs[k].y = gdf.data[k]["geometry"].y

C10_Witness ==
  /\ pc = "done"
  /\ Len(file.rows) = 2
  /\ Malformed(file.rows[1])
  /\ gdf.idx = <<1>>
  /\ shp.recs[1].y = NumCell(7, 0)

(* ================================================================== *)
(* Properties of compute_infiltration, checked under SpecInf.          *)
(* ================================================================== *)

\* 1 - rain_intensity / Ks is zero.
DenominatorZero ==
  ~IsZero(args.Ks) /\ IsZero(Sub(One, DivNp(args.rain_intensity, args.Ks)))

\* C6: every sample at or below F_p has the rate rain_intensity, every
\* sample above it the rate Ks*(1 - delta_theta*psi/F), and the
\* Green-Ampt expression at F_p equals rain_intensity.
C6_PiecewiseContinuous ==
  pc = "returned" =>
    LET dt == Sub(args.theta_s, args.theta_i)
        Fp == DivNp(Mul(dt, args.psi),
                    Sub(One, DivNp(args.rain_intensity, args.Ks)))
    IN  /\ \A i \in 1..Len(loc.F) :
             /\ Le(loc.F[i], Fp) => loc.f[i] = args.rain_intensity
             /\ (Le(Fp, loc.F[i]) /\ ~Le(loc.F[i], Fp)) =>
                  loc.f[i] = Mul(args.Ks, Sub(One, DivNp(Mul(dt, args.psi), loc.F[i])))
        /\ Mul(args.Ks, Sub(One, DivNp(Mul(dt, args.psi), Fp)))
             = args.rain_intensity

\* C9 as stated: with a zero denominator, or a sample F = 0 in the
\* Green-Ampt branch, the call returns infinite or nan values and does
\* not raise.
C9_Original ==
  /\ DenominatorZero => pc # "raised"
  /\ (DenominatorZero /\ pc = "returned") =>
       ~IsFinite(loc.F_p) /\ ~IsFinite(loc.t_p)
  /\ pc \in {"L55", "returned"} =>
       \A i \in 1..(loc.idx - 1) :
         (IsZero(loc.F[i]) /\ ~Le(loc.F[i], loc.F_p)) => ~IsFinite(loc.f[i])

\* C9 amended: no division is guarded.  With a zero denominator, Python
\* float arguments make line 49 raise ZeroDivisionError and nothing is
\* returned, and NumPy float arguments give an infinite or nan F_p and
\* t_p in the return value; a sample F = 0 in the Green-Ampt branch gets
\* an infinite or nan rate, without an error.
C9_NoGuard ==
  /\ (DenominatorZero /\ ~args.np /\ pc \notin {"L47", "L49"}) =>
       pc = "raised" /\ err = "ZeroDivisionError" /\ loc.F_p = Unset
  /\ args.np => pc # "raised"
  /\ (DenominatorZero /\ args.np /\ pc = "returned") =>
       ~IsFinite(loc.F_p) /\ ~IsFinite(loc.t_p)
  /\ pc \in {"L55", "returned"} =>
       \A i \in 1..(loc.idx - 1) :
         (IsZero(loc.F[i]) /\ ~Le(loc.F[i], loc.F_p)) => ~IsFinite(loc.f[i])

C9_Witness ==
  /\ pc = "raised"
  /\ DenominatorZero
  /\ ~args.np
  /\ err = "ZeroDivisionError"

====
